---- MODULE Spec2Model ----
(***************************************************************************)
(* Food Desert Mapper: the store repository, the coverage tracker and the  *)
(* ingestion pipelines, as state machines.                                 *)
(*                                                                         *)
(* Two code variants coexist in the repository:                            *)
(*   - the application variant (src/app.py, src/db_setup.py,               *)
(*     src/grocery_fetcher.py): stores keyed by (osm_id, city_id),         *)
(*     fetch_metadata as the log of fetches;                               *)
(*   - the scripts variant (src/scripts/*.py): stores keyed by             *)
(*     (store_name, location, city_id), coverage_areas as the log of       *)
(*     fetched bounding boxes.                                             *)
(***************************************************************************)
EXTENDS Integers, Sequences, FiniteSets, TLC

(***************************************************************************)
(* Bounds of the model.                                                    *)
(***************************************************************************)
MaxCalls == 2
MaxBatch == 2

CityIds == {1, 2}
OsmIds == {1, 2}

\* The attribute sets a fetched store can carry: a base version, one with
\* another name, one with another category.
BaseVersion == [name |-> "n1", shop_type |-> "supermarket", location |-> "p1"]

StoreVersions ==
    { BaseVersion,
      [name |-> "n2", shop_type |-> "supermarket", location |-> "p1"],
      [name |-> "n1", shop_type |-> "bakery", location |-> "p1"] }

\* What happens to one row of the batch inside save_stores_to_db:
\*   "ok"   the row is prepared and its INSERT is accepted,
\*   "prep" preparing the row raises (row.geometry.wkt, int(osm_id), ...),
\*   "db"   the database rejects its INSERT (e.g. name longer than 255).
Faults == {"ok", "prep", "db"}

Attrs(r) == [name |-> r.name, shop_type |-> r.shop_type, location |-> r.location]

\* The rows the upstream can return: store 1 in each version, store 2 in
\* the base version; a faulty row is in the base version.
FetchedStores ==
    { r \in [osm_id : OsmIds, name : {"n1", "n2"},
             shop_type : {"supermarket", "bakery"}, location : {"p1"},
             fault : Faults] :
        /\ Attrs(r) \in StoreVersions
        /\ (r.osm_id # 1 \/ r.fault # "ok") => Attrs(r) = BaseVersion }

\* process_stores ends with deduplicate_stores: no two rows share an osm_id.
Batches ==
    { b \in UNION { [1..n -> FetchedStores] : n \in 0..MaxBatch } :
        \A i, j \in DOMAIN b : i # j => b[i].osm_id # b[j].osm_id }

VARIABLES
    cities,          \* app variant: cities table, city id -> fetched_at (0: no row)
    grocery_stores,  \* app variant: grocery_stores table, a set of rows
    fetch_metadata,  \* app variant: fetch_metadata table, a sequence of rows
    pc,              \* position of the running fetch_new_data call
    call,            \* locals of the running fetch_new_data call
    pre,             \* the tables as they were when the call started
    clock,           \* number of calls started so far (NOW() of the rows)
    scripts_stores,  \* scripts variant: grocery_stores table, a set of rows
    next_id,         \* scripts variant: next value of grocery_stores.id (SERIAL)
    fetcher,         \* scripts variant: the running fetch_and_save_stores calls
    coverage_areas,  \* scripts variant: coverage_areas table, a sequence of rows
    last_check,      \* the last direct check_coverage call and its answer
    bbox_stores,     \* bbox pipeline: grocery_stores rows keyed by osm_id
    ingest,          \* bbox pipeline: the running fetch_stores_in_bbox calls
    analysis,        \* app: the session state of the accessibility analysis
    processed,       \* the last normalization of an upstream result
    query,           \* the last call of a repository query or geometry function
    city_boundaries, \* scripts variant: city_boundaries table, a set of rows
    cities_table,    \* app variant: the rows of the cities table, with geometry
    session,         \* app: st.session_state of the sidebar
    connections      \* the calls that use the repository and the upstream

\* the boundary tables; the sidebar's session and the open connections
boundaryVars == <<city_boundaries, cities_table>>
sessionVars == <<session, connections>>

\* what the sidebar leaves alone
nonSidebarVars ==
    <<pc, call, pre, scripts_stores, next_id, fetcher, coverage_areas, last_check,
      bbox_stores, ingest, analysis, processed, query, boundaryVars, connections>>

\* what the ingestion and coverage operations leave alone
nonStoreVars == <<analysis, processed, query, boundaryVars, sessionVars>>

\* what the application variant leaves alone
nonAppVars == <<scripts_stores, next_id, fetcher, coverage_areas, last_check,
                bbox_stores, ingest, nonStoreVars>>

\* what the scripts variant's store fetcher leaves alone
nonFetcherVars == <<cities, grocery_stores, fetch_metadata, pc, call, pre,
                    coverage_areas, last_check, bbox_stores, ingest,
                    nonStoreVars>>

\* what the coverage tracker and the bbox pipeline leave alone
nonCoverageVars == <<cities, grocery_stores, fetch_metadata, pc, call, pre,
                     clock, scripts_stores, next_id, fetcher, nonStoreVars>>

vars == <<cities, grocery_stores, fetch_metadata, pc, call, pre, clock,
          scripts_stores, next_id, fetcher, coverage_areas, last_check,
          bbox_stores, ingest, analysis, processed, query, city_boundaries,
          cities_table, session, connections>>

NoCall ==
    [city |-> 0, fetch |-> "none", stores |-> <<>>, city_id |-> 0,
     stores_count |-> 0, batch_failure |-> FALSE, logged |-> FALSE,
     saved |-> FALSE, retry |-> FALSE, repo_ok |-> TRUE]

Procs == {1, 2}

\* The point features the upstream can return in the scripts variant (after
\* the Point filter and fillna of the name): no osm_id is kept.
ScriptsVersions ==
    { [store_name |-> "n1", shop_type |-> "supermarket", location |-> "p1"],
      [store_name |-> "n1", shop_type |-> "convenience", location |-> "p1"],
      [store_name |-> "n1", shop_type |-> "supermarket", location |-> "p2"] }

\* stores_gdf is not deduplicated in this variant
ScriptsBatches == UNION { [1..n -> ScriptsVersions] : n \in 0..MaxBatch }

\* the city of the scripts variant's calls (city_boundaries.id)
ScriptsCity == 1

NoFetcher ==
    [pc |-> "idle", stores |-> <<>>, i |-> 1, new_stores |-> <<>>,
     store_id |-> 0, needs_update |-> FALSE, updated_stores |-> <<>>, now |-> 0]

InitScripts ==
    /\ scripts_stores = {}
    /\ next_id = 1
    /\ fetcher = [p \in Procs |-> NoFetcher]

\* the scripts variant started on a repository that may hold a store
InitScriptsStored ==
    /\ scripts_stores \in
          { {},
            { [id |-> 1, store_name |-> "n1", shop_type |-> "supermarket",
               location |-> "p1", city_id |-> ScriptsCity, last_updated |-> 0] } }
    /\ next_id = Cardinality(scripts_stores) + 1
    /\ fetcher = [p \in Procs |-> NoFetcher]

InitApp ==
    /\ cities = [c \in CityIds |-> 0]
    /\ grocery_stores = {}
    /\ fetch_metadata = <<>>
    /\ pc = "idle"
    /\ call = NoCall
    /\ pre = [rows |-> {}, meta |-> 0]
    /\ clock = 0

MaxCoverage == 2

\* Bounding boxes (min_lon, min_lat, max_lon, max_lat) on a small grid:
\* nested, partially overlapping, adjacent and disjoint ones.
BBoxes ==
    { <<x[1], y[1], x[2], y[2]>> :
        x \in {<<0, 1>>, <<0, 2>>, <<1, 3>>, <<2, 3>>},
        y \in {<<0, 1>>, <<0, 2>>} }

StoreCounts == {0, 2}

NoCheck == [bbox |-> <<>>, result |-> FALSE, ok |-> FALSE]

\* What the upstream can return for a bounding box: rows with distinct
\* osm ids.
RawResults ==
    { {}, {[osm_id |-> 1, store_name |-> "n1"]},
      {[osm_id |-> 1, store_name |-> "n2"]},
      {[osm_id |-> 1, store_name |-> "n1"], [osm_id |-> 2, store_name |-> "n1"]} }

\* The bounding boxes the pipeline's callers ask for: one box, a box that
\* contains it and a box that partially overlaps it.
IngestBBoxes == { <<0, 0, 2, 1>>, <<0, 0, 3, 2>>, <<1, 0, 3, 1>> }

\* covered, check_ok, fetched, writes, recorded: what the call has seen and
\* done so far (covered: a recorded polygon contained bbox at the check)
NoIngest ==
    [pc |-> "idle", bbox |-> <<>>, raw |-> {}, new_records |-> 0,
     covered |-> FALSE, check_ok |-> FALSE, fetched |-> FALSE, writes |-> 0,
     recorded |-> FALSE]

InitCoverage ==
    /\ coverage_areas = <<>>
    /\ last_check = NoCheck
    /\ bbox_stores = {}
    /\ ingest = [p \in Procs |-> NoIngest]

MaxStores == 3

\* Points (latitude, longitude) on a grid around 60 degrees north: one step
\* of latitude is 1 km on the ground, one step of longitude 0.5 km.
Points == { <<0, 0>>, <<0, 1>>, <<0, 2>>, <<1, 0>> }

\* The search radius of the slider, in hundredths of a kilometre
\* (min_value 0.5, step 0.5).
Radii == {50, 100, 150}

\* stores_gdf: None (is_none) or the rows in iteration order, each with its
\* index label and its point geometry (y: latitude, x: longitude).
StoreRows ==
    UNION { { [i \in 1..n |-> [idx |-> i - 1, y |-> pts[i][1], x |-> pts[i][2]]] :
              pts \in [1..n -> Points] } : n \in 0..MaxStores }

StoreSets ==
    { [is_none |-> TRUE, rows |-> <<>>] } \cup
    { [is_none |-> FALSE, rows |-> rows] : rows \in StoreRows }

\* the places of the stores of an upstream result
FetchedPoints == { <<0, 0>>, <<1, 0>> }

\* the index labels of n rows kept of an upstream result of at most MaxStores
\* records, in the order of the rows: reset_index labels a record with its
\* position, the boundary filter and drop_duplicates keep the labels of the
\* rows they keep
KeptLabels(n) ==
    { labels \in [1..n -> 0..(MaxStores - 1)] :
        \A i \in 1..(n - 1) : labels[i] < labels[i + 1] }

\* stores_gdf as process_stores returns it; no step after the filter and the
\* deduplication renumbers the rows.
FetchedStoreRows ==
    UNION { { [i \in 1..n |-> [idx |-> lp[1][i], y |-> lp[2][i][1],
                               x |-> lp[2][i][2]]] :
              lp \in KeptLabels(n) \X [1..n -> FetchedPoints] } :
            n \in 1..MaxStores }

FetchedStoreSets ==
    { [is_none |-> FALSE, rows |-> rows] : rows \in FetchedStoreRows }

\* the analysis has not been rendered
NoReport ==
    [rendered |-> FALSE, raised |-> FALSE, nearest |-> <<>>, store |-> <<>>,
     count |-> 0, classification |-> "", nearby |-> <<>>]

\* initialize_session_state
InitAnalysis ==
    analysis = [data_loaded |-> FALSE,
                stores_gdf |-> [is_none |-> TRUE, rows |-> <<>>],
                analysis_point |-> <<>>,
                analysis_radius |-> 100,
                report |-> NoReport]

NoProcessed == [variant |-> "none", raw |-> <<>>, out |-> <<>>]

NoQuery == [op |-> "none"]

InitCalls ==
    /\ processed = NoProcessed
    /\ query = NoQuery

\* stores_gdf of the session: None, or the stores of a city
NoStores == [is_none |-> TRUE, city |-> 0, osm_ids |-> {}]

\* initialize_session_state (0 and "": None)
NoSession ==
    [boundary_gdf |-> 0, stores_gdf |-> NoStores, city_info |-> 0,
     current_city |-> "", current_state |-> "", data_loaded |-> FALSE,
     pending_city |-> "", pending_state |-> "", show_options |-> FALSE,
     existing_city_id |-> 0]

InitSession == session = NoSession

\* A caller of the repository and the upstream: the operation its call is
\* at (op) and where it stands in it (phase), the connections it holds
\* (open), whether the statement of the operation raised, the rows the loop
\* of fetch_and_save_stores has still to visit, whether new_stores holds a
\* row, and the calls it has made.
NoCaller ==
    [variant |-> "none", op |-> "none", phase |-> "idle", open |-> 0,
     raised |-> FALSE, rows_left |-> 0, new_stores |-> FALSE, calls |-> 0]

InitConnections == connections = [p \in Procs |-> NoCaller]

\* country_name = None: the column holds NULL
NoCountry == "NULL"

\* The city_boundaries table: its rows and the way its unique index on
\* (city_name, country_name), the one ON CONFLICT names, compares NULLs. The
\* table's DDL is not among the sources; PostgreSQL's unique indexes take
\* NULLs for distinct unless declared NULLS NOT DISTINCT.
InitBoundary ==
    /\ city_boundaries = [rows |-> {}, nulls_distinct |-> TRUE]
    /\ cities_table = {}

\* the same, for either declaration of the index
InitBoundarySchema ==
    /\ city_boundaries \in { [rows |-> {}, nulls_distinct |-> d] : d \in BOOLEAN }
    /\ cities_table = {}

Init ==
    /\ InitApp /\ InitScripts /\ InitCoverage /\ InitAnalysis /\ InitCalls
    /\ InitBoundary /\ InitSession /\ InitConnections

\* the databases after an earlier fetch of the scripts variant
InitStored ==
    /\ InitApp /\ InitScriptsStored /\ InitCoverage /\ InitAnalysis /\ InitCalls
    /\ InitBoundary /\ InitSession /\ InitConnections

\* the databases with either declaration of the boundary index
InitSchemas ==
    /\ InitApp /\ InitScripts /\ InitCoverage /\ InitAnalysis /\ InitCalls
    /\ InitBoundarySchema /\ InitSession /\ InitConnections

(***************************************************************************)
(* src/db_setup.py: save_stores_to_db.                                     *)
(***************************************************************************)

\* INSERT ... ON CONFLICT (osm_id, city_id) DO NOTHING, for one row.
\* The result is the table and cursor.rowcount.
Conflicts(table, city_id, osm_id) ==
    \E s \in table : s.city_id = city_id /\ s.osm_id = osm_id

InsertStore(table, city_id, r, now) ==
    IF Conflicts(table, city_id, r.osm_id)
    THEN [table |-> table, rowcount |-> 0]
    ELSE [table |-> table \cup
                    { [city_id |-> city_id, osm_id |-> r.osm_id, name |-> r.name,
                       shop_type |-> r.shop_type, location |-> r.location,
                       fetched_at |-> now] },
          rowcount |-> 1]

\* The for loop of save_stores_to_db over stores_gdf.iterrows(), inside one
\* transaction (get_db_connection() is called with autocommit = False).
\* st = [table, aborted, count]: the table as the transaction sees it,
\* whether the transaction is in the aborted state, inserted_count.
RECURSIVE SaveLoop(_, _, _, _, _)
SaveLoop(batch, i, city_id, now, st) ==
    IF i > Len(batch) THEN st
    ELSE
      LET r == batch[i] IN
      IF r.fault = "prep"
      THEN \* the exception is raised before cursor.execute: continue
           SaveLoop(batch, i + 1, city_id, now, st)
      ELSE IF st.aborted
      THEN \* "current transaction is aborted, commands ignored": continue
           SaveLoop(batch, i + 1, city_id, now, st)
      ELSE IF r.fault = "db"
      THEN \* the INSERT fails: the transaction enters the aborted state
           SaveLoop(batch, i + 1, city_id, now, [st EXCEPT !.aborted = TRUE])
      ELSE LET res == InsertStore(st.table, city_id, r, now) IN
           SaveLoop(batch, i + 1, city_id, now,
                    [st EXCEPT !.table = res.table,
                               !.count = st.count + res.rowcount])

\* save_stores_to_db(stores_gdf, city_id): the table after the call and the
\* number it returns. connOk = FALSE: psycopg2.connect (or the commit) raises,
\* the outer except returns 0.
save_stores_to_db(table, batch, city_id, now, connOk) ==
    IF Len(batch) = 0 THEN [table |-> table, returned |-> 0]
    ELSE IF ~connOk THEN [table |-> table, returned |-> 0]
    ELSE LET st == SaveLoop(batch, 1, city_id, now,
                            [table |-> table, aborted |-> FALSE, count |-> 0])
         IN \* conn.commit(): COMMIT of an aborted transaction rolls it back
            [table |-> IF st.aborted THEN table ELSE st.table,
             returned |-> st.count]

(***************************************************************************)
(* src/app.py: fetch_new_data, one action per step of the call.            *)
(***************************************************************************)

\* fetch_new_data(city, state) is entered (from render_sidebar).
\* retry: the previous call was for the same city and its fetch failed.
AppStart(c) ==
    /\ pc \in {"idle", "returned"}
    /\ clock < MaxCalls
    /\ clock' = clock + 1
    /\ call' = [NoCall EXCEPT !.city = c,
                              !.retry = (call.city = c /\ call.fetch = "failed")]
    /\ pre' = [rows |-> grocery_stores, meta |-> Len(fetch_metadata)]
    /\ pc' = "start"
    /\ UNCHANGED <<cities, grocery_stores, fetch_metadata, nonAppVars>>

\* boundary_gdf = fetch_city_boundary(...); None or empty: return.
FetchBoundary(ok) ==
    /\ pc = "start"
    /\ IF ok
       THEN /\ pc' = "boundary"
            /\ call' = call
       ELSE /\ pc' = "returned"
            /\ call' = [call EXCEPT !.fetch = "failed"]
    /\ UNCHANGED <<cities, grocery_stores, fetch_metadata, pre, clock, nonAppVars>>

\* Mutant of FetchStores: a failed fetch is carried on as an empty result.
FetchStoresFailureCarriedOn(ok, batch) ==
    /\ pc = "boundary"
    /\ pc' = "stores"
    /\ call' = IF ok THEN [call EXCEPT !.fetch = "ok", !.stores = batch]
               ELSE [call EXCEPT !.fetch = "failed"]
    /\ UNCHANGED <<cities, grocery_stores, fetch_metadata, pre, clock, nonAppVars>>

\* stores_gdf = fetch_grocery_stores(boundary_gdf); None (the upstream query
\* raised): return. An empty result is carried on.
FetchStores(ok, batch) ==
    /\ pc = "boundary"
    /\ IF ok
       THEN /\ pc' = "stores"
            /\ call' = [call EXCEPT !.fetch = "ok", !.stores = batch]
       ELSE /\ pc' = "returned"
            /\ call' = [call EXCEPT !.fetch = "failed"]
    /\ UNCHANGED <<cities, grocery_stores, fetch_metadata, pre, clock, nonAppVars>>

\* city_id = save_city_to_db(boundary_gdf); None: warning, the store and
\* metadata steps are skipped.
SaveCity(ok) ==
    /\ pc = "stores"
    /\ IF ok
       THEN /\ cities' = [cities EXCEPT ![call.city] = clock]
            /\ call' = [call EXCEPT !.city_id = call.city]
            /\ pc' = "city"
       ELSE /\ cities' = cities
            /\ call' = [call EXCEPT !.repo_ok = FALSE]
            /\ pc' = "session"
    /\ UNCHANGED <<grocery_stores, fetch_metadata, pre, clock, nonAppVars>>

\* stores_count = save_stores_to_db(stores_gdf, city_id)
SaveStores(connOk) ==
    /\ pc = "city"
    /\ LET res == save_stores_to_db(grocery_stores, call.stores, call.city_id,
                                    clock, connOk)
       IN /\ grocery_stores' = res.table
          /\ call' = [call EXCEPT !.stores_count = res.returned,
                                  !.saved = TRUE,
                                  !.batch_failure =
                                      (~connOk /\ Len(call.stores) > 0),
                                  !.repo_ok = (call.repo_ok /\
                                               (connOk \/ Len(call.stores) = 0))]
    /\ pc' = "saved"
    /\ UNCHANGED <<cities, fetch_metadata, pre, clock, nonAppVars>>

\* log_fetch_metadata(city_id, status, stores_count): one INSERT; an
\* exception is logged and swallowed.
log_fetch_metadata(table, city_id, status, stores_count, ok) ==
    IF ok
    THEN Append(table, [city_id |-> city_id, status |-> status,
                        stores_count |-> stores_count])
    ELSE table

LogMetadata(ok) ==
    /\ pc = "saved"
    /\ fetch_metadata' = log_fetch_metadata(fetch_metadata, call.city_id,
                                            "success", call.stores_count, ok)
    /\ call' = [call EXCEPT !.logged = ok, !.repo_ok = (call.repo_ok /\ ok)]
    /\ pc' = "session"
    /\ UNCHANGED <<cities, grocery_stores, pre, clock, nonAppVars>>

\* the session state is updated and the call returns
UpdateSession ==
    /\ pc = "session"
    /\ pc' = "returned"
    /\ UNCHANGED <<cities, grocery_stores, fetch_metadata, call, pre, clock, nonAppVars>>

NextApp ==
    \/ \E c \in CityIds : AppStart(c)
    \/ \E ok \in BOOLEAN : FetchBoundary(ok)
    \/ \E ok \in BOOLEAN, b \in Batches : FetchStores(ok, b)
    \/ \E ok \in BOOLEAN : SaveCity(ok)
    \/ \E ok \in BOOLEAN : SaveStores(ok)
    \/ \E ok \in BOOLEAN : LogMetadata(ok)
    \/ UpdateSession

SpecApp == Init /\ [][NextApp]_vars

(***************************************************************************)
(* src/scripts/grocery_fetcher.py: GroceryStoreFetcher, one action per     *)
(* statement sent to the database (each execute_query opens its own        *)
(* autocommit connection), for each of the concurrent callers.             *)
(***************************************************************************)

\* the rows _get_store_id's SELECT matches
MatchingStores(table, store_name, location, city_id) ==
    { s \in table : /\ s.store_name = store_name
                    /\ s.location = location
                    /\ s.city_id = city_id }

\* _store_needs_update, given the row SELECTed by id (none: False)
_store_needs_update(table, store_id, store_name, shop_type, location) ==
    \E s \in table :
        /\ s.id = store_id
        /\ (s.store_name # store_name \/ s.shop_type # shop_type
            \/ s.location # location)

\* _update_store: UPDATE ... WHERE id = store_id
_update_store(table, store_id, store_name, shop_type, location, now) ==
    { IF s.id = store_id
      THEN [s EXCEPT !.store_name = store_name, !.shop_type = shop_type,
                     !.location = location, !.last_updated = now]
      ELSE s : s \in table }

\* _touch_store: UPDATE ... SET last_updated WHERE id = store_id
_touch_store(table, store_id, now) ==
    { IF s.id = store_id THEN [s EXCEPT !.last_updated = now] ELSE s :
      s \in table }

\* batch_insert: one INSERT per value tuple, each row taking the next id
RECURSIVE batch_insert(_, _, _, _)
batch_insert(table, first_id, values, now) ==
    IF Len(values) = 0 THEN table
    ELSE batch_insert(
           table \cup { [id |-> first_id,
                         store_name |-> Head(values).store_name,
                         shop_type |-> Head(values).shop_type,
                         location |-> Head(values).location,
                         city_id |-> ScriptsCity,
                         last_updated |-> now] },
           first_id + 1, Tail(values), now)

\* after row i: the next row, or the batch insert when the loop is over
AfterRow(f) ==
    [f EXCEPT !.i = f.i + 1,
              !.pc = IF f.i + 1 > Len(f.stores) THEN "insert" ELSE "loop"]

\* fetch_and_save_stores is entered: the environment is validated, the city
\* id is read, ox.features_from_polygon answers (ok) or raises.
FsStart(p, ok, batch) ==
    /\ fetcher[p].pc = "idle"
    /\ clock < MaxCalls
    /\ clock' = clock + 1
    /\ fetcher' =
         [fetcher EXCEPT ![p] =
            IF ok
            THEN [NoFetcher EXCEPT !.stores = batch, !.now = clock + 1,
                                   !.pc = IF Len(batch) = 0 THEN "insert"
                                          ELSE "loop"]
            ELSE [NoFetcher EXCEPT !.pc = "raised"]]
    /\ UNCHANGED <<scripts_stores, next_id, nonFetcherVars>>

\* store_id = self._get_store_id(store_name, wkt, city_id); None: the row
\* is appended to new_stores. result[0][0] is any of the matching rows.
FsGetStoreId(p) ==
    LET f == fetcher[p]
        row == f.stores[f.i]
        found == MatchingStores(scripts_stores, row.store_name, row.location,
                                ScriptsCity)
    IN /\ f.pc = "loop"
       /\ IF found = {}
          THEN fetcher' = [fetcher EXCEPT ![p] =
                             AfterRow([f EXCEPT !.new_stores =
                                                   Append(f.new_stores, row)])]
          ELSE \E s \in found :
                 fetcher' = [fetcher EXCEPT ![p] =
                               [f EXCEPT !.store_id = s.id, !.pc = "check"]]
       /\ UNCHANGED <<scripts_stores, next_id, clock, nonFetcherVars>>

\* self._store_needs_update(store_id, store_name, shop_type, wkt)
FsNeedsUpdate(p) ==
    LET f == fetcher[p]
        row == f.stores[f.i]
    IN /\ f.pc = "check"
       /\ fetcher' = [fetcher EXCEPT ![p] =
                        [f EXCEPT !.needs_update =
                                     _store_needs_update(scripts_stores, f.store_id,
                                         row.store_name, row.shop_type,
                                         row.location),
                                  !.pc = "write"]]
       /\ UNCHANGED <<scripts_stores, next_id, clock, nonFetcherVars>>

\* self._update_store(...) and updated_stores.append, or self._touch_store
FsWrite(p) ==
    LET f == fetcher[p]
        row == f.stores[f.i]
    IN /\ f.pc = "write"
       /\ IF f.needs_update
          THEN /\ scripts_stores' =
                    _update_store(scripts_stores, f.store_id, row.store_name,
                                  row.shop_type, row.location, f.now)
               /\ fetcher' = [fetcher EXCEPT ![p] =
                                AfterRow([f EXCEPT !.updated_stores =
                                            Append(f.updated_stores, f.store_id)])]
          ELSE /\ scripts_stores' = _touch_store(scripts_stores, f.store_id, f.now)
               /\ fetcher' = [fetcher EXCEPT ![p] = AfterRow(f)]
       /\ UNCHANGED <<next_id, clock, nonFetcherVars>>

\* if new_stores: batch_insert(...); return stores
FsBatchInsert(p) ==
    LET f == fetcher[p] IN
    /\ f.pc = "insert"
    /\ scripts_stores' = batch_insert(scripts_stores, next_id, f.new_stores, f.now)
    /\ next_id' = next_id + Len(f.new_stores)
    /\ fetcher' = [fetcher EXCEPT ![p] =
                     [NoFetcher EXCEPT !.pc = "done", !.stores = f.stores,
                                       !.now = f.now]]
    /\ UNCHANGED <<clock, nonFetcherVars>>

\* any statement of the call can raise (connection error): the exception
\* leaves fetch_and_save_stores, the rows collected in new_stores are lost
FsRaise(p) ==
    /\ fetcher[p].pc \in {"loop", "check", "write", "insert"}
    /\ fetcher' = [fetcher EXCEPT ![p] = [NoFetcher EXCEPT !.pc = "raised"]]
    /\ UNCHANGED <<scripts_stores, next_id, clock, nonFetcherVars>>

NextScripts ==
    \/ \E p \in Procs, ok \in BOOLEAN, b \in ScriptsBatches : FsStart(p, ok, b)
    \/ \E p \in Procs : FsGetStoreId(p)
    \/ \E p \in Procs : FsNeedsUpdate(p)
    \/ \E p \in Procs : FsWrite(p)
    \/ \E p \in Procs : FsBatchInsert(p)
    \/ \E p \in Procs : FsRaise(p)

SpecScripts == InitStored /\ [][NextScripts]_vars

(***************************************************************************)
(* src/scripts/db_setup.py: check_coverage and add_coverage.               *)
(***************************************************************************)

\* bbox_wkt: the ring POLYGON((min_lon min_lat, max_lon min_lat,
\* max_lon max_lat, min_lon max_lat, min_lon min_lat)) as <<lon, lat>> points
bbox_wkt(bbox) ==
    LET min_lon == bbox[1]
        min_lat == bbox[2]
        max_lon == bbox[3]
        max_lat == bbox[4]
    IN << <<min_lon, min_lat>>, <<max_lon, min_lat>>, <<max_lon, max_lat>>,
          <<min_lon, max_lat>>, <<min_lon, min_lat>> >>

Min(S) == CHOOSE m \in S : \A n \in S : m <= n
Max(S) == CHOOSE m \in S : \A n \in S : m >= n

\* Mutant of ST_Contains: an overlap test (ST_Intersects) in its place.
ST_Intersects(a, b) ==
    LET alons == { a[i][1] : i \in DOMAIN a }
        alats == { a[i][2] : i \in DOMAIN a }
        blons == { b[i][1] : i \in DOMAIN b }
        blats == { b[i][2] : i \in DOMAIN b }
    IN /\ Min(alons) <= Max(blons) /\ Min(blons) <= Max(alons)
       /\ Min(alats) <= Max(blats) /\ Min(blats) <= Max(alats)

\* ST_Contains(a, b) for two axis-parallel rectangles of positive area given
\* as rings: every vertex of b lies in the closed rectangle a
ST_Contains(a, b) ==
    LET lons == { a[i][1] : i \in DOMAIN a }
        lats == { a[i][2] : i \in DOMAIN a }
    IN \A j \in DOMAIN b :
          /\ Min(lons) <= b[j][1] /\ b[j][1] <= Max(lons)
          /\ Min(lats) <= b[j][2] /\ b[j][2] <= Max(lats)

\* Mutant of check_coverage: the arguments of ST_Contains exchanged.
check_coverage_reversed(table, bbox, ok) ==
    IF ok
    THEN \E i \in DOMAIN table : ST_Contains(bbox_wkt(bbox), table[i].bbox)
    ELSE FALSE

\* check_coverage(bbox): SELECT EXISTS (... WHERE ST_Contains(bbox, %s));
\* ok = FALSE: the query raises, the except branch returns False
check_coverage(table, bbox, ok) ==
    IF ok
    THEN \E i \in DOMAIN table : ST_Contains(table[i].bbox, bbox_wkt(bbox))
    ELSE FALSE

\* Mutant of add_coverage: a bounding box already recorded is not recorded
\* again.
add_coverage_dedup(table, bbox, store_count) ==
    IF \E i \in DOMAIN table : table[i].bbox = bbox_wkt(bbox)
    THEN table
    ELSE Append(table, [bbox |-> bbox_wkt(bbox), store_count |-> store_count])

\* add_coverage(bbox, store_count): INSERT INTO coverage_areas
add_coverage(table, bbox, store_count) ==
    Append(table, [bbox |-> bbox_wkt(bbox), store_count |-> store_count])

\* The bounding box a stored ring was made from, and geometric containment
\* of one bounding box in another, by coordinates.
RingBBox(ring) == <<ring[1][1], ring[1][2], ring[3][1], ring[3][2]>>

BoxWithin(inner, outer) ==
    /\ outer[1] <= inner[1] /\ inner[3] <= outer[3]
    /\ outer[2] <= inner[2] /\ inner[4] <= outer[4]

\* some single recorded polygon contains the whole bbox
Covered(table, bbox) ==
    \E i \in DOMAIN table : BoxWithin(bbox, RingBBox(table[i].bbox))

\* a caller calls check_coverage(bbox)
CheckCoverage(bbox, ok) ==
    /\ last_check' = [bbox |-> bbox,
                      result |-> check_coverage(coverage_areas, bbox, ok),
                      ok |-> ok]
    /\ UNCHANGED <<coverage_areas, bbox_stores, ingest, nonCoverageVars>>

\* a caller calls add_coverage(bbox, store_count); ok = FALSE: the INSERT
\* raises, the exception is logged and raised again, nothing is written
AddCoverage(bbox, store_count, ok) ==
    /\ Len(coverage_areas) < MaxCoverage
    /\ coverage_areas' = IF ok THEN add_coverage(coverage_areas, bbox, store_count)
                         ELSE coverage_areas
    /\ last_check' = NoCheck
    /\ UNCHANGED <<bbox_stores, ingest, nonCoverageVars>>

(***************************************************************************)
(* fetch_stores_in_bbox (exported by src/scripts/__init__.py, its body is  *)
(* not in the sources): the ingestion state machine of the specification,  *)
(* CheckCoverage, Fetch, Persist, RecordCoverage, over check_coverage and  *)
(* add_coverage, for each of the concurrent callers.                       *)
(***************************************************************************)

\* upsert(external_id, ...): INSERT ... ON CONFLICT (osm_id) DO UPDATE
upsert(table, r, now) ==
    { s \in table : s.osm_id # r.osm_id } \cup
    { [osm_id |-> r.osm_id, store_name |-> r.store_name, last_updated |-> now] }

RECURSIVE upsert_all(_, _, _)
upsert_all(table, raw, now) ==
    IF raw = {} THEN table
    ELSE LET r == CHOOSE x \in raw : TRUE
         IN upsert_all(upsert(table, r, now), raw \ {r}, now)

IngStart(p, bbox) ==
    /\ ingest[p].pc = "idle"
    /\ ingest' = [ingest EXCEPT ![p] = [NoIngest EXCEPT !.pc = "check",
                                                          !.bbox = bbox]]
    /\ UNCHANGED <<coverage_areas, last_check, bbox_stores, nonCoverageVars>>

\* CheckCoverage: already covered -> Skipped, 0 new records
IngCheckCoverage(p, ok) ==
    LET g == ingest[p]
        covered == check_coverage(coverage_areas, g.bbox, ok)
    IN /\ g.pc = "check"
       /\ ingest' = [ingest EXCEPT ![p] =
                       [g EXCEPT !.pc = IF covered THEN "skipped" ELSE "fetch",
                                 !.check_ok = ok,
                                 !.covered = Covered(coverage_areas, g.bbox)]]
       /\ UNCHANGED <<coverage_areas, last_check, bbox_stores, nonCoverageVars>>

\* Fetch: the upstream answers with raw records, or fails -> Failed
IngFetch(p, ok, raw) ==
    LET g == ingest[p] IN
    /\ g.pc = "fetch"
    /\ ingest' = [ingest EXCEPT ![p] =
                    [g EXCEPT !.pc = IF ok THEN "persist" ELSE "failed",
                              !.raw = IF ok THEN raw ELSE {},
                              !.fetched = TRUE]]
    /\ UNCHANGED <<coverage_areas, last_check, bbox_stores, nonCoverageVars>>

\* Persist: every record is upserted, the newly inserted ones are counted
IngPersist(p) ==
    LET g == ingest[p]
        fresh == { r \in g.raw : \A s \in bbox_stores : s.osm_id # r.osm_id }
    IN /\ g.pc = "persist"
       /\ bbox_stores' = upsert_all(bbox_stores, g.raw, p)
       /\ ingest' = [ingest EXCEPT ![p] =
                       [g EXCEPT !.pc = "record",
                                 !.new_records = Cardinality(fresh),
                                 !.writes = Cardinality(g.raw)]]
       /\ UNCHANGED <<coverage_areas, last_check, nonCoverageVars>>

\* RecordCoverage: add_coverage(bbox, store_count); its INSERT can raise
IngRecordCoverage(p, ok) ==
    LET g == ingest[p] IN
    /\ g.pc = "record"
    /\ coverage_areas' =
         IF ok THEN add_coverage(coverage_areas, g.bbox, Cardinality(g.raw))
         ELSE coverage_areas
    /\ ingest' = [ingest EXCEPT ![p] =
                    [g EXCEPT !.pc = IF ok THEN "done" ELSE "failed",
                              !.recorded = ok]]
    /\ UNCHANGED <<last_check, bbox_stores, nonCoverageVars>>

NextCoverage ==
    \/ \E b \in BBoxes, ok \in BOOLEAN : CheckCoverage(b, ok)
    \/ \E b \in BBoxes, n \in StoreCounts, ok \in BOOLEAN : AddCoverage(b, n, ok)

NextIngest ==
    \/ \E p \in Procs, b \in IngestBBoxes : IngStart(p, b)
    \/ \E p \in Procs, ok \in BOOLEAN : IngCheckCoverage(p, ok)
    \/ \E p \in Procs, ok \in BOOLEAN, raw \in RawResults : IngFetch(p, ok, raw)
    \/ \E p \in Procs : IngPersist(p)
    \/ \E p \in Procs, ok \in BOOLEAN : IngRecordCoverage(p, ok)

SpecCoverage == Init /\ [][NextCoverage]_vars

SpecIngest == Init /\ [][NextIngest]_vars

(***************************************************************************)
(* src/utils/geo_utils.py and src/app.py: the accessibility analysis.      *)
(* Distances are in hundredths of a kilometre, the resolution of           *)
(* round(distance, 2).                                                     *)
(***************************************************************************)

\* round(sqrt(n)): the k with (k - 1/2)^2 <= n < (k + 1/2)^2
\* (sqrt(n) <= 50 + n / 50 for every n)
ISqrtRound(n) ==
    CHOOSE k \in 0..(50 + n \div 50) :
        /\ (k = 0 \/ (2 * k - 1) * (2 * k - 1) <= 4 * n)
        /\ 4 * n < (2 * k + 1) * (2 * k + 1)

\* Mutant of calculate_distance: cos(lat1) squared in the place of
\* cos(lat1) * cos(lat2), a step of longitude shrinking with the latitude of
\* point1.
calculate_distance_cos_lat1(point1, point2) ==
    LET dlat == 100 * (point2[1] - point1[1])
        dlon == (50 - 10 * point1[1]) * (point2[2] - point1[2])
    IN ISqrtRound(dlat * dlat + dlon * dlon)

\* calculate_distance(point1, point2), points as (latitude, longitude): the
\* haversine distance, rounded to two decimals. On the grid a step of
\* latitude is 100 hundredths of a km, a step of longitude 50
\* (cos(lat1) * cos(lat2) = 1/4), and the great circle is a straight line.
calculate_distance(point1, point2) ==
    LET dlat == 100 * (point2[1] - point1[1])
        dlon == 50 * (point2[2] - point1[2])
    IN ISqrtRound(dlat * dlat + dlon * dlon)

\* distances: the (idx, dist) pairs in the order of stores_gdf.iterrows()
Distances(point, rows) ==
    [i \in DOMAIN rows |->
        <<rows[i].idx, calculate_distance(point, <<rows[i].y, rows[i].x>>)>>]

\* Mutant of PyMin: a later item replaces an equal one.
RECURSIVE PyMinLast(_, _, _)
PyMinLast(items, i, best) ==
    IF i > Len(items) THEN best
    ELSE PyMinLast(items, i + 1,
                   IF items[i][2] <= best[2] THEN items[i] ELSE best)

\* min(distances, key=lambda x: x[1]): the first item with the least key
RECURSIVE PyMin(_, _, _)
PyMin(items, i, best) ==
    IF i > Len(items) THEN best
    ELSE PyMin(items, i + 1,
               IF items[i][2] < best[2] THEN items[i] ELSE best)

\* Mutant of find_nearest_store: a distance of 0 is taken for no result.
find_nearest_store_falsy(point, stores_gdf) ==
    IF stores_gdf.is_none \/ Len(stores_gdf.rows) = 0 THEN <<>>
    ELSE LET distances == Distances(point, stores_gdf.rows)
             min_item == PyMin(distances, 2, distances[1])
         IN IF min_item[2] = 0 THEN <<>> ELSE min_item

\* find_nearest_store(point, stores_gdf): <<>> for None, else (idx, dist)
find_nearest_store(point, stores_gdf) ==
    IF stores_gdf.is_none \/ Len(stores_gdf.rows) = 0 THEN <<>>
    ELSE LET distances == Distances(point, stores_gdf.rows)
         IN PyMin(distances, 2, distances[1])

\* Mutant of count_stores_in_radius: dist < radius_km.
count_stores_in_radius_strict(point, stores_gdf, radius_km) ==
    IF stores_gdf.is_none \/ Len(stores_gdf.rows) = 0 THEN 0
    ELSE Cardinality({ i \in DOMAIN stores_gdf.rows :
             calculate_distance(point, <<stores_gdf.rows[i].y,
                                         stores_gdf.rows[i].x>>) < radius_km })

\* count_stores_in_radius(point, stores_gdf, radius_km)
count_stores_in_radius(point, stores_gdf, radius_km) ==
    IF stores_gdf.is_none \/ Len(stores_gdf.rows) = 0 THEN 0
    ELSE Cardinality({ i \in DOMAIN stores_gdf.rows :
             calculate_distance(point, <<stores_gdf.rows[i].y,
                                         stores_gdf.rows[i].x>>) <= radius_km })

\* Mutant of classification: the boundary of Good moved to count > 3.
classification_off_by_one(count) ==
    IF count = 0 THEN "Desert"
    ELSE IF count <= 3 THEN "Limited"
    ELSE "Good"

\* the accessibility classification of render_accessibility_analysis
classification(count) ==
    IF count = 0 THEN "Desert"
    ELSE IF count < 3 THEN "Limited"
    ELSE "Good"

\* list.sort(key=...): a stable sort, here by insertion
RECURSIVE InsertSorted(_, _)
InsertSorted(sorted, e) ==
    IF Len(sorted) = 0 THEN <<e>>
    ELSE IF sorted[Len(sorted)].distance <= e.distance THEN Append(sorted, e)
    ELSE Append(InsertSorted(SubSeq(sorted, 1, Len(sorted) - 1), e),
                sorted[Len(sorted)])

RECURSIVE SortByDistance(_, _, _)
SortByDistance(items, i, sorted) ==
    IF i > Len(items) THEN sorted
    ELSE SortByDistance(items, i + 1, InsertSorted(sorted, items[i]))

\* nearby_stores of render_accessibility_analysis: the planar distance in
\* degrees to Point(lon, lat), compared with radius / 111.0 and shown as
\* round(distance_deg * 111, 2). A step of the grid is 1 / 111 of a degree
\* in latitude and in longitude.
RECURSIVE NearbyStores(_, _, _, _)
NearbyStores(point, rows, radius, i) ==
    IF i > Len(rows) THEN <<>>
    ELSE LET dy == rows[i].y - point[1]
             dx == rows[i].x - point[2]
             sq == 10000 * (dy * dy + dx * dx)
             rest == NearbyStores(point, rows, radius, i + 1)
         IN IF sq <= radius * radius
            THEN <<[idx |-> rows[i].idx, distance |-> ISqrtRound(sq)]>> \o rest
            ELSE rest

\* stores_gdf.iloc[position]: the row at the position, counted from 0, or
\* IndexError when the position is past the last row
iloc(rows, position) ==
    IF position + 1 \in DOMAIN rows
    THEN [raised |-> FALSE, row |-> rows[position + 1]]
    ELSE [raised |-> TRUE, row |-> <<>>]

\* fetch_new_data / load_existing_data / clear_session_state leave a store
\* set in the session; the page is rendered again.
SessionLoad(stores) ==
    /\ analysis' = [analysis EXCEPT !.data_loaded = TRUE, !.stores_gdf = stores,
                                    !.report = NoReport]
    /\ UNCHANGED <<cities, grocery_stores, fetch_metadata, pc, call, pre, clock,
                   scripts_stores, next_id, fetcher, coverage_areas, last_check,
                   bbox_stores, ingest, processed, query,
                   boundaryVars, sessionVars>>

\* render_map: a click on the map becomes the analysis point
ClickMap(point) ==
    /\ analysis.analysis_point # point
    /\ analysis' = [analysis EXCEPT !.analysis_point = point, !.report = NoReport]
    /\ UNCHANGED <<cities, grocery_stores, fetch_metadata, pc, call, pre, clock,
                   scripts_stores, next_id, fetcher, coverage_areas, last_check,
                   bbox_stores, ingest, processed, query,
                   boundaryVars, sessionVars>>

\* render_accessibility_analysis, with the value of the radius slider
RenderAccessibilityAnalysis(radius) ==
    LET stores_gdf == analysis.stores_gdf
        point == analysis.analysis_point
    IN /\ analysis.data_loaded
       /\ ~stores_gdf.is_none /\ Len(stores_gdf.rows) > 0
       /\ IF point = <<>>
          THEN analysis' = [analysis EXCEPT !.analysis_radius = radius,
                                            !.report = NoReport]
          ELSE \E nearest \in {find_nearest_store(point, stores_gdf)},
                  count \in {count_stores_in_radius(point, stores_gdf, radius)} :
               \E store \in {iloc(stores_gdf.rows, nearest[1])} :
                 analysis' =
                    IF store.raised
                    THEN \* the IndexError ends the run of the script: nothing
                         \* after the lookup is rendered
                         [analysis EXCEPT
                            !.analysis_radius = radius,
                            !.report = [NoReport EXCEPT !.raised = TRUE,
                                                        !.nearest = nearest]]
                    ELSE [analysis EXCEPT
                            !.analysis_radius = radius,
                            !.report =
                               [rendered |-> TRUE, raised |-> FALSE,
                                nearest |-> nearest, store |-> store.row,
                                count |-> count,
                                classification |-> classification(count),
                                nearby |-> IF count > 0
                                           THEN SortByDistance(
                                                  NearbyStores(point,
                                                      stores_gdf.rows,
                                                      radius, 1), 1, <<>>)
                                           ELSE <<>>]]
       /\ UNCHANGED <<cities, grocery_stores, fetch_metadata, pc, call, pre, clock,
                      scripts_stores, next_id, fetcher, coverage_areas, last_check,
                      bbox_stores, ingest, processed, query,
                      boundaryVars, sessionVars>>

NextAnalysis ==
    \/ \E s \in StoreSets : SessionLoad(s)
    \/ \E s \in FetchedStoreSets : SessionLoad(s)
    \/ \E pt \in Points : ClickMap(pt)
    \/ \E r \in Radii : RenderAccessibilityAnalysis(r)

SpecAnalysis == Init /\ [][NextAnalysis]_vars

(***************************************************************************)
(* Direct calls of find_nearest_store (src/utils/geo_utils.py),            *)
(* get_stores_in_bbox (src/scripts/db_setup.py) and                        *)
(* calculate_coverage_percentage (src/utils/geo_utils.py), one call on     *)
(* each of the inputs.                                                     *)
(***************************************************************************)

\* a caller calls find_nearest_store(point, stores_gdf)
CallFindNearestStore(point, stores_gdf) ==
    /\ query = NoQuery
    /\ query' = [op |-> "find_nearest_store", point |-> point,
                 stores_gdf |-> stores_gdf,
                 result |-> find_nearest_store(point, stores_gdf)]
    /\ UNCHANGED <<cities, grocery_stores, fetch_metadata, pc, call, pre, clock,
                   scripts_stores, next_id, fetcher, coverage_areas, last_check,
                   bbox_stores, ingest, analysis, processed,
                   boundaryVars, sessionVars>>

\* The locations (lon, lat) of the stored stores of the bounding-box query:
\* inside, on an edge of, at a corner of or outside the boxes of BBoxes.
StoredLocations == { <<1, 1>>, <<2, 1>>, <<3, 1>>, <<1, 0>> }

\* the grocery_stores tables of the query: rows with id and location
StoreTables ==
    { { [id |-> loc[1] * 10 + loc[2], location |-> loc] : loc \in S } :
        S \in SUBSET StoredLocations }

\* location && ST_MakeEnvelope(...): the bounding boxes intersect
BoxOverlap(location, bbox) ==
    /\ bbox[1] <= location[1] /\ location[1] <= bbox[3]
    /\ bbox[2] <= location[2] /\ location[2] <= bbox[4]

\* Mutant of ST_Within: the edge of the envelope counts as inside.
ST_CoveredBy(location, bbox) ==
    /\ bbox[1] <= location[1] /\ location[1] <= bbox[3]
    /\ bbox[2] <= location[2] /\ location[2] <= bbox[4]

\* ST_Within(location, ST_MakeEnvelope(min_lon, min_lat, max_lon, max_lat)) for
\* a point and an envelope of positive area: the point is in the interior
ST_Within(location, bbox) ==
    /\ bbox[1] < location[1] /\ location[1] < bbox[3]
    /\ bbox[2] < location[2] /\ location[2] < bbox[4]

\* get_stores_in_bbox(bbox); ok = FALSE: the query raises, the except branch
\* returns []
get_stores_in_bbox(table, bbox, ok) ==
    IF ok
    THEN { s \in table : BoxOverlap(s.location, bbox) /\ ST_Within(s.location, bbox) }
    ELSE {}

\* a caller calls get_stores_in_bbox(bbox) on a repository holding table
CallGetStoresInBBox(table, bbox, ok) ==
    /\ query = NoQuery
    /\ query' = [op |-> "get_stores_in_bbox", table |-> table, bbox |-> bbox,
                 ok |-> ok, result |-> get_stores_in_bbox(table, bbox, ok)]
    /\ UNCHANGED <<cities, grocery_stores, fetch_metadata, pc, call, pre, clock,
                   scripts_stores, next_id, fetcher, coverage_areas, last_check,
                   bbox_stores, ingest, analysis, processed,
                   boundaryVars, sessionVars>>

\* boundary_gdf: None, empty, or one geometry: a rectangle (Polygon) or a
\* geometry that is no Polygon or MultiPolygon
Boundaries ==
    { [kind |-> "None", box |-> <<>>], [kind |-> "empty", box |-> <<>>],
      [kind |-> "LineString", box |-> <<>>] } \cup
    { [kind |-> "Polygon", box |-> b] : b \in BBoxes }

\* radius_meters of the walking distance
WalkRadii == {1000, 2000}

\* the unit squares (1 km2 each) of a rectangle, by their lower left corner
Cells(box) == { <<x, y>> : x \in box[1]..(box[3] - 1), y \in box[2]..(box[4] - 1) }

\* buffer_geometry and unary_union: the squares within radius_meters of a
\* store (the buffer of a point taken as a square of side 2 * radius)
MergedBuffers(rows, radius_meters) ==
    LET r == radius_meters \div 1000 IN
    UNION { Cells(<<rows[i].x - r, rows[i].y - r, rows[i].x + r, rows[i].y + r>>) :
            i \in DOMAIN rows }

default_result ==
    [covered_area_km2 |-> 0, total_area_km2 |-> 0, coverage_percentage |-> 0,
     uncovered_area_km2 |-> 0]

\* the statements of the try block after the two emptiness tests;
\* coverage_percentage in tenths of a percent (round(coverage_pct, 1))
CoverageStatistics(stores_gdf, boundary_gdf, radius_meters) ==
    IF boundary_gdf.kind # "Polygon" THEN default_result
    ELSE LET total == Cardinality(Cells(boundary_gdf.box))
             covered == Cardinality(MergedBuffers(stores_gdf.rows, radius_meters)
                                    \cap Cells(boundary_gdf.box))
         IN [covered_area_km2 |-> covered,
             total_area_km2 |-> total,
             coverage_percentage |->
                 IF total > 0 THEN (2000 * covered + total) \div (2 * total) ELSE 0,
             uncovered_area_km2 |-> total - covered]

\* Mutant of calculate_coverage_percentage: a geometry error leaves the
\* function.
calculate_coverage_percentage_unguarded(stores_gdf, boundary_gdf, radius_meters, geom_error) ==
    IF stores_gdf.is_none \/ Len(stores_gdf.rows) = 0
    THEN [raised |-> FALSE, result |-> default_result]
    ELSE IF boundary_gdf.kind \in {"None", "empty"}
    THEN [raised |-> FALSE, result |-> default_result]
    ELSE IF geom_error
    THEN [raised |-> TRUE, result |-> default_result]
    ELSE [raised |-> FALSE,
          result |-> CoverageStatistics(stores_gdf, boundary_gdf, radius_meters)]

\* calculate_coverage_percentage(stores_gdf, boundary_gdf, radius_meters);
\* geom_error: a statement of the try block raises (buffering, projection)
calculate_coverage_percentage(stores_gdf, boundary_gdf, radius_meters, geom_error) ==
    IF stores_gdf.is_none \/ Len(stores_gdf.rows) = 0
    THEN [raised |-> FALSE, result |-> default_result]
    ELSE IF boundary_gdf.kind \in {"None", "empty"}
    THEN [raised |-> FALSE, result |-> default_result]
    ELSE IF geom_error
    THEN [raised |-> FALSE, result |-> default_result]
    ELSE [raised |-> FALSE,
          result |-> CoverageStatistics(stores_gdf, boundary_gdf, radius_meters)]

\* a caller calls calculate_coverage_percentage
CallCalculateCoveragePercentage(stores_gdf, boundary_gdf, radius_meters, geom_error) ==
    /\ query = NoQuery
    /\ query' = [op |-> "calculate_coverage_percentage", stores_gdf |-> stores_gdf,
                 boundary_gdf |-> boundary_gdf, radius_meters |-> radius_meters,
                 geom_error |-> geom_error,
                 returned |-> calculate_coverage_percentage(
                                 stores_gdf, boundary_gdf, radius_meters, geom_error)]
    /\ UNCHANGED <<cities, grocery_stores, fetch_metadata, pc, call, pre, clock,
                   scripts_stores, next_id, fetcher, coverage_areas, last_check,
                   bbox_stores, ingest, analysis, processed,
                   boundaryVars, sessionVars>>

\* lat, lon (degrees) and radius_meters of get_stores_in_radius: in range, at
\* the ends of the ranges and beyond them
Latitudes == {-91, -90, 0, 1, 90, 91}
Longitudes == {-181, -180, 0, 180, 181}
RadiiMeters == {-1000, 0, 1000, 200000}

\* ST_Distance(location::geography, ST_MakePoint(lon, lat)::geography), in
\* km and squared: 111 km to the degree. For the stored locations, which
\* lie within three degrees of (0, 0), this orders the stores and separates
\* those within the radii as the distance on the spheroid does.
GeographyDistanceSq(location, lat, lon) ==
    LET dlat == location[2] - lat
        dlon == location[1] - lon
    IN 111 * 111 * (dlat * dlat + dlon * dlon)

\* ST_DWithin(location::geography, point::geography, radius_meters)
ST_DWithin(location, lat, lon, radius_meters) ==
    GeographyDistanceSq(location, lat, lon)
        <= (radius_meters \div 1000) * (radius_meters \div 1000)

\* the rows of the SELECT ... ORDER BY distance, from the rows not yet placed
RECURSIVE OrderByDistance(_)
OrderByDistance(rows) ==
    IF rows = {} THEN <<>>
    ELSE LET first == CHOOSE r \in rows :
                         \A o \in rows : \/ r.distance < o.distance
                                          \/ (r.distance = o.distance /\ r.id <= o.id)
         IN <<first>> \o OrderByDistance(rows \ {first})

\* Mutant of get_stores_in_radius: a radius of 0 passes the validation.
get_stores_in_radius_zero_radius(table, lat, lon, radius_meters, ok) ==
    IF ~(-90 <= lat /\ lat <= 90) \/ ~(-180 <= lon /\ lon <= 180)
       \/ radius_meters < 0
    THEN [raised |-> "ValueError", queries |-> 0, result |-> <<>>, table |-> table]
    ELSE IF ~ok
    THEN [raised |-> "Exception", queries |-> 1, result |-> <<>>, table |-> table]
    ELSE [raised |-> "none", queries |-> 1,
          result |-> OrderByDistance(
              { [id |-> s.id, distance |-> GeographyDistanceSq(s.location, lat, lon)] :
                s \in { t \in table :
                           ST_DWithin(t.location, lat, lon, radius_meters) } }),
          table |-> table]

\* get_stores_in_radius(lat, lon, radius_meters) on a repository holding
\* table: what it raises, the queries it issued, the rows it returns and the
\* table it leaves; ok = FALSE: execute_query raises, the exception is
\* logged and raised again
get_stores_in_radius(table, lat, lon, radius_meters, ok) ==
    IF ~(-90 <= lat /\ lat <= 90)
    THEN [raised |-> "ValueError", queries |-> 0, result |-> <<>>, table |-> table]
    ELSE IF ~(-180 <= lon /\ lon <= 180)
    THEN [raised |-> "ValueError", queries |-> 0, result |-> <<>>, table |-> table]
    ELSE IF radius_meters <= 0
    THEN [raised |-> "ValueError", queries |-> 0, result |-> <<>>, table |-> table]
    ELSE IF ~ok
    THEN [raised |-> "Exception", queries |-> 1, result |-> <<>>, table |-> table]
    ELSE [raised |-> "none", queries |-> 1,
          result |-> OrderByDistance(
              { [id |-> s.id, distance |-> GeographyDistanceSq(s.location, lat, lon)] :
                s \in { t \in table :
                           ST_DWithin(t.location, lat, lon, radius_meters) } }),
          table |-> table]

\* a caller calls get_stores_in_radius on a repository holding table
CallGetStoresInRadius(table, lat, lon, radius_meters, ok) ==
    /\ query = NoQuery
    /\ query' = [op |-> "get_stores_in_radius", table |-> table, lat |-> lat,
                 lon |-> lon, radius_meters |-> radius_meters, ok |-> ok,
                 returned |-> get_stores_in_radius(table, lat, lon,
                                                   radius_meters, ok)]
    /\ UNCHANGED <<cities, grocery_stores, fetch_metadata, pc, call, pre, clock,
                   scripts_stores, next_id, fetcher, coverage_areas, last_check,
                   bbox_stores, ingest, analysis, processed, boundaryVars,
                   sessionVars>>

\* a caller calls calculate_distance(point1, point2)
CallCalculateDistance(point1, point2) ==
    /\ query = NoQuery
    /\ query' = [op |-> "calculate_distance", point1 |-> point1,
                 point2 |-> point2,
                 result |-> calculate_distance(point1, point2)]
    /\ UNCHANGED <<cities, grocery_stores, fetch_metadata, pc, call, pre, clock,
                   scripts_stores, next_id, fetcher, coverage_areas, last_check,
                   bbox_stores, ingest, analysis, processed, boundaryVars,
                   sessionVars>>

NextGeo ==
    \/ query = NoQuery /\ \E p1 \in Points, p2 \in Points :
          CallCalculateDistance(p1, p2)
    \/ query = NoQuery /\ \E tb \in StoreTables, lat \in Latitudes,
          lon \in Longitudes, r \in RadiiMeters, ok \in BOOLEAN :
          CallGetStoresInRadius(tb, lat, lon, r, ok)
    \/ query = NoQuery /\ \E pt \in Points, s \in StoreSets :
          CallFindNearestStore(pt, s)
    \/ query = NoQuery /\ \E tb \in StoreTables, b \in BBoxes, ok \in BOOLEAN :
          CallGetStoresInBBox(tb, b, ok)
    \/ query = NoQuery /\ \E s \in StoreSets, bd \in Boundaries, r \in WalkRadii,
          err \in BOOLEAN :
          CallCalculateCoveragePercentage(s, bd, r, err)

SpecGeo == Init /\ [][NextGeo]_vars

(***************************************************************************)
(* Normalization of an upstream result: process_stores                     *)
(* (src/grocery_fetcher.py) and the preparation of the rows in             *)
(* fetch_and_save_stores (src/scripts/grocery_fetcher.py), one call on     *)
(* each of the inputs.                                                     *)
(***************************************************************************)

\* the boundary polygon of the city, a rectangle (min_lon, min_lat, max_lon,
\* max_lat)
CityBoundary == <<0, 0, 2, 2>>

\* "": the tag is missing (NaN)
ShopTags == {"", "Supermarket"}
AmenityTags == {"", "marketplace"}

\* The features ox.features_from_polygon can return: nodes (Point) and
\* building footprints (Polygon), given by their centroid, inside, on the
\* edge of and outside the boundary.
RawFeatures ==
    [osmid : OsmIds, shop : ShopTags, amenity : AmenityTags,
     type : {"Point"}, centroid : { <<1, 1>>, <<2, 1>>, <<3, 1>> }]
    \cup
    [osmid : OsmIds, shop : ShopTags, amenity : AmenityTags,
     type : {"Polygon"}, centroid : { <<1, 1>>, <<3, 1>> }]

RawResultsOfPolygon == UNION { [1..n -> RawFeatures] : n \in 0..MaxBatch }

\* str(...).lower()
Lower(s) == IF s = "Supermarket" THEN "supermarket" ELSE s

\* geometry.within(boundary) for a point and a rectangle
within(point, boundary) ==
    /\ boundary[1] < point[1] /\ point[1] < boundary[3]
    /\ boundary[2] < point[2] /\ point[2] < boundary[4]

\* get_shop_type(row) of standardize_store_types
get_shop_type(row) ==
    IF row.shop # "" THEN Lower(row.shop)
    ELSE IF row.amenity # "" THEN Lower(row.amenity)
    ELSE "unknown"

\* reset_index, extract_point_geometries, filter_within_boundary,
\* standardize_store_types, extract_store_info for the rows from i on; idx is
\* the index label of the row
RECURSIVE CleanRows(_, _, _)
CleanRows(raw, boundary, i) ==
    IF i > Len(raw) THEN <<>>
    ELSE LET rest == CleanRows(raw, boundary, i + 1) IN
         IF within(raw[i].centroid, boundary)
         THEN <<[idx |-> i - 1, osm_id |-> raw[i].osmid,
                 shop_type |-> get_shop_type(raw[i]),
                 geometry |-> raw[i].centroid]>> \o rest
         ELSE rest

\* Mutant of deduplicate_stores: keep='last'.
RECURSIVE deduplicate_stores_keep_last(_, _)
deduplicate_stores_keep_last(rows, i) ==
    IF i > Len(rows) THEN <<>>
    ELSE IF \E j \in (i + 1)..Len(rows) : rows[j].osm_id = rows[i].osm_id
    THEN deduplicate_stores_keep_last(rows, i + 1)
    ELSE <<rows[i]>> \o deduplicate_stores_keep_last(rows, i + 1)

\* deduplicate_stores: drop_duplicates(subset=['osm_id'], keep='first')
RECURSIVE deduplicate_stores(_, _)
deduplicate_stores(rows, i) ==
    IF i > Len(rows) THEN <<>>
    ELSE IF \E j \in 1..(i - 1) : rows[j].osm_id = rows[i].osm_id
    THEN deduplicate_stores(rows, i + 1)
    ELSE <<rows[i]>> \o deduplicate_stores(rows, i + 1)

\* process_stores(stores_gdf, boundary)
process_stores(raw, boundary) ==
    deduplicate_stores(CleanRows(raw, boundary, 1), 1)

\* fetch_and_save_stores: stores_gdf[geometry.type == 'Point'], reindex to
\* geometry, name, shop, then per row shop_type = row.get('shop', 'unknown'):
\* the column exists after the reindex, so a missing tag is read as NaN
RECURSIVE ScriptsRows(_, _)
ScriptsRows(raw, i) ==
    IF i > Len(raw) THEN <<>>
    ELSE LET rest == ScriptsRows(raw, i + 1) IN
         IF raw[i].type = "Point"
         THEN <<[idx |-> i - 1,
                 shop_type |-> IF raw[i].shop # "" THEN raw[i].shop ELSE "NaN",
                 geometry |-> raw[i].centroid]>> \o rest
         ELSE rest

\* fetch_grocery_stores hands the upstream result to process_stores
ProcessStores(raw) ==
    /\ processed = NoProcessed
    /\ processed' = [variant |-> "app", raw |-> raw,
                     out |-> process_stores(raw, CityBoundary)]
    /\ UNCHANGED <<cities, grocery_stores, fetch_metadata, pc, call, pre, clock,
                   scripts_stores, next_id, fetcher, coverage_areas, last_check,
                   bbox_stores, ingest, analysis, query,
                   boundaryVars, sessionVars>>

\* fetch_and_save_stores prepares the rows it persists and returns
ScriptsPrepare(raw) ==
    /\ processed = NoProcessed
    /\ processed' = [variant |-> "scripts", raw |-> raw,
                     out |-> ScriptsRows(raw, 1)]
    /\ UNCHANGED <<cities, grocery_stores, fetch_metadata, pc, call, pre, clock,
                   scripts_stores, next_id, fetcher, coverage_areas, last_check,
                   bbox_stores, ingest, analysis, query,
                   boundaryVars, sessionVars>>

NextProcess ==
    \/ processed = NoProcessed /\ \E raw \in RawResultsOfPolygon : ProcessStores(raw)
    \/ processed = NoProcessed /\ \E raw \in RawResultsOfPolygon : ScriptsPrepare(raw)

SpecProcess == Init /\ [][NextProcess]_vars

(***************************************************************************)
(* The boundary tables: _save_boundary_to_db (src/scripts/city_fetcher.py) *)
(* and save_city_to_db (src/db_setup.py).                                  *)
(***************************************************************************)

CityNames == {"c1", "c2"}
CountryNames == {NoCountry, "USA"}
StateNames == {"s1", "s2"}
Geometries == {"g1", "g2"}

\* the rows the unique index on (city_name, country_name) takes for the key
\* of the INSERT: equal columns, where a NULL equals nothing when the index
\* takes NULLs for distinct
BoundaryConflicts(table, city_name, country_name) ==
    { r \in table.rows :
        /\ r.city_name = city_name
        /\ r.country_name = country_name
        /\ (country_name # NoCountry \/ ~table.nulls_distinct) }

\* _save_boundary_to_db(gdf, city_name, country_name): INSERT ... ON CONFLICT
\* (city_name, country_name) DO UPDATE SET boundary, last_updated;
\* ok = FALSE: execute_query raises, the exception is raised again
_save_boundary_to_db(table, city_name, country_name, geom_wkt, now, ok) ==
    LET conflicts == BoundaryConflicts(table, city_name, country_name) IN
    IF ~ok THEN table
    ELSE IF conflicts # {}
    THEN [table EXCEPT !.rows =
            { IF r \in conflicts
              THEN [r EXCEPT !.boundary = geom_wkt, !.last_updated = now]
              ELSE r : r \in table.rows }]
    ELSE [table EXCEPT !.rows =
            table.rows \cup
            { [id |-> Cardinality(table.rows) + 1, city_name |-> city_name,
               country_name |-> country_name, boundary |-> geom_wkt,
               last_updated |-> now] }]

\* city_gdf as fetch_city_boundary (src/city_fetcher.py) leaves it: one row
\* with the name, the state and the country of the request, or empty
CityFrames ==
    [empty : {FALSE}, name : CityNames, state : StateNames, country : {"USA"},
     boundary : Geometries]
    \cup { [empty |-> TRUE, name |-> "", state |-> "", country |-> "",
             boundary |-> ""] }

\* save_city_to_db(city_gdf): INSERT ... ON CONFLICT (name, state, country)
\* DO UPDATE SET boundary, area_km2, fetched_at = NOW() RETURNING id; the
\* table after the call and the id returned (0: None). ok = FALSE: a
\* statement of the try block raises, the except branch returns None.
save_city_to_db(table, city_gdf, now, ok) ==
    LET conflicts == { r \in table : /\ r.name = city_gdf.name
                                      /\ r.state = city_gdf.state
                                      /\ r.country = city_gdf.country }
    IN IF city_gdf.empty \/ ~ok THEN [table |-> table, returned |-> 0]
       ELSE IF conflicts # {}
       THEN [table |-> { IF r \in conflicts
                         THEN [r EXCEPT !.boundary = city_gdf.boundary,
                                        !.fetched_at = now]
                         ELSE r : r \in table },
             returned |-> (CHOOSE r \in conflicts : TRUE).id]
       ELSE [table |-> table \cup
                       { [id |-> Cardinality(table) + 1, name |-> city_gdf.name,
                          state |-> city_gdf.state, country |-> city_gdf.country,
                          boundary |-> city_gdf.boundary, fetched_at |-> now] },
             returned |-> Cardinality(table) + 1]

\* fetch_city_boundary (scripts) has its boundary and saves it
SaveBoundaryToDb(city_name, country_name, geom_wkt, ok) ==
    /\ clock < MaxCalls
    /\ clock' = clock + 1
    /\ city_boundaries' = _save_boundary_to_db(city_boundaries, city_name,
                                                country_name, geom_wkt, clock + 1, ok)
    /\ UNCHANGED <<cities, grocery_stores, fetch_metadata, pc, call, pre,
                   scripts_stores, next_id, fetcher, coverage_areas, last_check,
                   bbox_stores, ingest, analysis, processed, query, cities_table,
                   sessionVars>>

\* fetch_new_data (app) saves the boundary it fetched
SaveCityToDb(city_gdf, ok) ==
    /\ clock < MaxCalls
    /\ clock' = clock + 1
    /\ cities_table' = save_city_to_db(cities_table, city_gdf, clock + 1, ok).table
    /\ UNCHANGED <<cities, grocery_stores, fetch_metadata, pc, call, pre,
                   scripts_stores, next_id, fetcher, coverage_areas, last_check,
                   bbox_stores, ingest, analysis, processed, query,
                   city_boundaries, sessionVars>>

NextBoundary ==
    \/ \E c \in CityNames, k \in CountryNames, g \in Geometries, ok \in BOOLEAN :
          SaveBoundaryToDb(c, k, g, ok)
    \/ \E gdf \in CityFrames, ok \in BOOLEAN : SaveCityToDb(gdf, ok)

SpecBoundary == InitSchemas /\ [][NextBoundary]_vars

(***************************************************************************)
(* The connections of the repository: get_db_connection and execute_query  *)
(* (src/scripts/db_setup.py, src/db_setup.py) under the calls of           *)
(* fetch_and_save_stores (src/scripts/grocery_fetcher.py) and of           *)
(* fetch_new_data from render_sidebar (src/app.py), for concurrent         *)
(* callers. An operation of the repository is one with-block of            *)
(* get_db_connection; a fetch is one call of the upstream.                 *)
(***************************************************************************)

\* the operations that query the upstream map-data source
UpstreamOps == {"fetch_city_boundary", "fetch_grocery_stores", "features_from_polygon"}

\* Mutant of get_db_connection: conn.close() after the yield, without finally.
get_db_connection_no_finally(open, raised) ==
    IF raised THEN open ELSE open - 1

\* get_db_connection, after the yield: finally: if conn: conn.close()
get_db_connection(open, raised) == open - 1

\* the call is over
Return(c) ==
    [c EXCEPT !.variant = "none", !.op = "none", !.phase = "idle",
              !.raised = FALSE, !.rows_left = 0, !.new_stores = FALSE]

\* the call goes on with operation op
Goto(c, op) == [c EXCEPT !.op = op, !.phase = "ready", !.raised = FALSE]

\* fetch_and_save_stores after a row of the loop: the next row, or
\* if new_stores: batch_insert(...)
NextRow(c) ==
    IF c.rows_left > 1
    THEN Goto([c EXCEPT !.rows_left = c.rows_left - 1], "_get_store_id")
    ELSE IF c.new_stores THEN Goto([c EXCEPT !.rows_left = 0], "batch_insert")
    ELSE Return(c)

\* The operation that follows c.op when it succeeded with the given answer
\* (found: the SELECT of _get_store_id or _store_needs_update answered with
\* a row to act on; n: the number of Point features fetched).
\* render_sidebar: check_city_exists, then fetch_new_data (src/app.py);
\* fetch_and_save_stores: validate_database_environment (two queries),
\* _get_city_id, ox.features_from_polygon, the loop, batch_insert.
Proceed(c, found, n) ==
    CASE c.op = "check_city_exists" -> Goto(c, "fetch_city_boundary")
      [] c.op = "fetch_city_boundary" -> Goto(c, "fetch_grocery_stores")
      [] c.op = "fetch_grocery_stores" -> Goto(c, "save_city_to_db")
      [] c.op = "save_city_to_db" -> Goto(c, "save_stores_to_db")
      [] c.op = "save_stores_to_db" -> Goto(c, "log_fetch_metadata")
      [] c.op = "log_fetch_metadata" -> Return(c)
      [] c.op = "tables_query" -> Goto(c, "postgis_query")
      [] c.op = "postgis_query" -> Goto(c, "_get_city_id")
      [] c.op = "_get_city_id" ->
            IF found THEN Goto(c, "features_from_polygon") ELSE Return(c)
      [] c.op = "features_from_polygon" ->
            IF n > 0 THEN Goto([c EXCEPT !.rows_left = n], "_get_store_id")
            ELSE Return(c)
      [] c.op = "_get_store_id" ->
            IF found THEN Goto(c, "_store_needs_update")
            ELSE NextRow([c EXCEPT !.new_stores = TRUE])
      [] c.op = "_store_needs_update" ->
            IF found THEN Goto(c, "_update_store") ELSE Goto(c, "_touch_store")
      [] c.op \in {"_update_store", "_touch_store"} -> NextRow(c)
      [] c.op = "batch_insert" -> Return(c)

\* An operation failed. scripts: the exception leaves fetch_and_save_stores.
\* app: a failed fetch returns from fetch_new_data; the repository functions
\* catch the exception and return None or 0: after save_city_to_db the other
\* writes are skipped, after the others the call goes on.
AfterFailure(c) ==
    IF c.variant = "scripts" \/ c.op \in UpstreamOps \/ c.op = "save_city_to_db"
    THEN Return(c)
    ELSE Proceed(c, FALSE, 0)

\* a caller enters render_sidebar's fetch (app) or fetch_and_save_stores
CallerStart(p, variant) ==
    LET c == connections[p] IN
    /\ c.phase = "idle"
    /\ c.calls < MaxCalls
    /\ connections' =
         [connections EXCEPT ![p] =
            Goto([c EXCEPT !.variant = variant, !.calls = c.calls + 1],
                 IF variant = "app" THEN "check_city_exists" ELSE "tables_query")]
    /\ UNCHANGED <<cities, grocery_stores, fetch_metadata, pc, call, pre, clock,
                   scripts_stores, next_id, fetcher, coverage_areas, last_check,
                   bbox_stores, ingest, analysis, processed, query, boundaryVars,
                   session>>

\* with get_db_connection() as conn: psycopg2.connect(...); ok = FALSE:
\* connect raises, conn stays None and finally closes nothing
OpenConnection(p, ok) ==
    LET c == connections[p] IN
    /\ c.phase = "ready"
    /\ c.op \notin UpstreamOps
    /\ connections' =
         [connections EXCEPT ![p] =
            IF ok THEN [c EXCEPT !.open = c.open + 1, !.phase = "open"]
            ELSE AfterFailure(c)]
    /\ UNCHANGED <<cities, grocery_stores, fetch_metadata, pc, call, pre, clock,
                   scripts_stores, next_id, fetcher, coverage_areas, last_check,
                   bbox_stores, ingest, analysis, processed, query, boundaryVars,
                   session>>

\* the statements of the with-block; ok = FALSE: one of them raises
RunStatement(p, ok) ==
    LET c == connections[p] IN
    /\ c.phase = "open"
    /\ connections' = [connections EXCEPT ![p] =
                          [c EXCEPT !.phase = "ran", !.raised = ~ok]]
    /\ UNCHANGED <<cities, grocery_stores, fetch_metadata, pc, call, pre, clock,
                   scripts_stores, next_id, fetcher, coverage_areas, last_check,
                   bbox_stores, ingest, analysis, processed, query, boundaryVars,
                   session>>

\* the with-block is left and the caller acts on the answer
CloseConnection(p, found) ==
    LET c == connections[p]
        closed == [c EXCEPT !.open = get_db_connection(c.open, c.raised)]
    IN /\ c.phase = "ran"
       /\ connections' = [connections EXCEPT ![p] =
                             IF c.raised THEN AfterFailure(closed)
                             ELSE Proceed(closed, found, 0)]
       /\ UNCHANGED <<cities, grocery_stores, fetch_metadata, pc, call, pre, clock,
                      scripts_stores, next_id, fetcher, coverage_areas, last_check,
                      bbox_stores, ingest, analysis, processed, query,
                      boundaryVars, session>>

\* the request to the upstream is sent
BeginFetch(p) ==
    LET c == connections[p] IN
    /\ c.phase = "ready"
    /\ c.op \in UpstreamOps
    /\ connections' = [connections EXCEPT ![p] = [c EXCEPT !.phase = "flight"]]
    /\ UNCHANGED <<cities, grocery_stores, fetch_metadata, pc, call, pre, clock,
                   scripts_stores, next_id, fetcher, coverage_areas, last_check,
                   bbox_stores, ingest, analysis, processed, query, boundaryVars,
                   session>>

\* the upstream answers with n Point features, or the fetch fails
EndFetch(p, ok, n) ==
    LET c == connections[p] IN
    /\ c.phase = "flight"
    /\ connections' = [connections EXCEPT ![p] =
                          IF ok THEN Proceed(c, TRUE, n) ELSE AfterFailure(c)]
    /\ UNCHANGED <<cities, grocery_stores, fetch_metadata, pc, call, pre, clock,
                   scripts_stores, next_id, fetcher, coverage_areas, last_check,
                   bbox_stores, ingest, analysis, processed, query, boundaryVars,
                   session>>

NextConnections ==
    \/ \E p \in Procs, v \in {"app", "scripts"} : CallerStart(p, v)
    \/ \E p \in Procs, ok \in BOOLEAN : OpenConnection(p, ok)
    \/ \E p \in Procs, ok \in BOOLEAN : RunStatement(p, ok)
    \/ \E p \in Procs, found \in BOOLEAN : CloseConnection(p, found)
    \/ \E p \in Procs : BeginFetch(p)
    \/ \E p \in Procs, ok \in BOOLEAN, n \in 0..MaxBatch : EndFetch(p, ok, n)

SpecConnections == Init /\ [][NextConnections]_vars

(***************************************************************************)
(* src/app.py: render_sidebar with load_existing_data, fetch_new_data and  *)
(* clear_session_state, one action per click (a run of the script), on the *)
(* tables of src/db_setup.py.                                              *)
(***************************************************************************)

\* the (name, state) of the cities: one name in two states
CityKey(id) == IF id = 1 THEN <<"c1", "s1">> ELSE <<"c1", "s2">>

\* the upstream results of the sidebar's fetches: valid rows
SessionBatches ==
    { b \in Batches :
        \A i \in DOMAIN b : b[i].fault = "ok" /\ Attrs(b[i]) = BaseVersion }

\* what the upstream and the repository answer during fetch_new_data
FetchAnswers ==
    [boundary_ok : BOOLEAN, stores_ok : BOOLEAN, batch : SessionBatches,
     city_ok : BOOLEAN, conn_ok : BOOLEAN, log_ok : BOOLEAN]

\* check_city_exists(city, state, country): the id of the row, 0 for None;
\* ok = FALSE: the query raises, the except branch returns None
check_city_exists(table, city, state, ok) ==
    IF ok /\ \E id \in CityIds : CityKey(id) = <<city, state>> /\ table[id] # 0
    THEN CHOOSE id \in CityIds : CityKey(id) = <<city, state>> /\ table[id] # 0
    ELSE 0

\* get_stores_from_db(city_id): the stores of the city; None when the query
\* raises and when the city has no store (gdf if not gdf.empty else None)
get_stores_from_db(table, city_id, ok) ==
    LET ids == { r.osm_id : r \in { t \in table : t.city_id = city_id } } IN
    IF ~ok \/ ids = {} THEN NoStores
    ELSE [is_none |-> FALSE, city |-> city_id, osm_ids |-> ids]

\* load_existing_data(city_id): the session after the call
load_existing_data(s, city_table, store_table, city_id, ok_city, ok_stores) ==
    LET stores_gdf == get_stores_from_db(store_table, city_id, ok_stores) IN
    IF ~ok_city \/ city_table[city_id] = 0 THEN s
    ELSE IF stores_gdf.is_none THEN s
    ELSE [s EXCEPT !.boundary_gdf = city_id, !.stores_gdf = stores_gdf,
                   !.city_info = city_id, !.data_loaded = TRUE]

\* fetch_new_data(city, state) for the city of id city_id: the session and
\* the tables after the call
fetch_new_data(s, db, city_id, now, a) ==
    IF ~a.boundary_ok \/ ~a.stores_ok THEN [session |-> s, db |-> db]
    ELSE LET saved == save_stores_to_db(db.grocery_stores, a.batch, city_id,
                                        now, a.conn_ok)
             after ==
               IF a.city_ok
               THEN [cities |-> [db.cities EXCEPT ![city_id] = now],
                     grocery_stores |-> saved.table,
                     fetch_metadata |->
                        log_fetch_metadata(db.fetch_metadata, city_id, "success",
                                           saved.returned, a.log_ok)]
               ELSE db
         IN [session |->
               [s EXCEPT !.boundary_gdf = city_id,
                         !.stores_gdf =
                            [is_none |-> FALSE, city |-> city_id,
                             osm_ids |-> { a.batch[i].osm_id : i \in DOMAIN a.batch }],
                         !.city_info = city_id,
                         !.data_loaded = TRUE],
             db |-> after]

\* clear_session_state
clear_session_state(s) == NoSession

\* the tables of the app variant
Db == [cities |-> cities, grocery_stores |-> grocery_stores,
       fetch_metadata |-> fetch_metadata]

\* 'Fetch City Data' is clicked with the name and state of city id: the city
\* is stored: the options are shown; it is not: fetch_new_data
ClickFetch(id, exists_ok, a) ==
    LET city == CityKey(id)[1]
        state == CityKey(id)[2]
        existing_city == check_city_exists(cities, city, state, exists_ok)
        pending == [session EXCEPT !.pending_city = city, !.pending_state = state]
        fetched == fetch_new_data([pending EXCEPT !.show_options = FALSE], Db, id,
                                  clock + 1, a)
    IN /\ clock < MaxCalls
       /\ IF existing_city # 0
          THEN /\ session' = [pending EXCEPT !.show_options = TRUE,
                                             !.existing_city_id = existing_city]
               /\ UNCHANGED <<cities, grocery_stores, fetch_metadata, clock>>
          ELSE /\ session' = [fetched.session EXCEPT !.current_city = city,
                                                     !.current_state = state]
               /\ cities' = fetched.db.cities
               /\ grocery_stores' = fetched.db.grocery_stores
               /\ fetch_metadata' = fetched.db.fetch_metadata
               /\ clock' = clock + 1
       /\ UNCHANGED nonSidebarVars

\* the options are shown when check_city_exists finds the pending city
OptionsShown ==
    /\ session.show_options
    /\ session.existing_city_id # 0
    /\ check_city_exists(cities, session.pending_city, session.pending_state,
                         TRUE) # 0

\* the fields both option buttons reset
OptionTaken(s) ==
    [s EXCEPT !.current_city = session.pending_city,
              !.current_state = session.pending_state,
              !.show_options = FALSE, !.existing_city_id = 0,
              !.pending_city = "", !.pending_state = ""]

\* 'Use Existing' is clicked
ClickUseExisting(ok_city, ok_stores) ==
    /\ OptionsShown
    /\ session' = OptionTaken(load_existing_data(session, cities, grocery_stores,
                                                 session.existing_city_id,
                                                 ok_city, ok_stores))
    /\ UNCHANGED <<cities, grocery_stores, fetch_metadata, clock, nonSidebarVars>>

\* 'Re-fetch' is clicked
ClickReFetch(a) ==
    LET id == CHOOSE i \in CityIds :
                 CityKey(i) = <<session.pending_city, session.pending_state>>
        fetched == fetch_new_data(session, Db, id, clock + 1, a)
    IN /\ OptionsShown
       /\ clock < MaxCalls
       /\ session' = OptionTaken(fetched.session)
       /\ cities' = fetched.db.cities
       /\ grocery_stores' = fetched.db.grocery_stores
       /\ fetch_metadata' = fetched.db.fetch_metadata
       /\ clock' = clock + 1
       /\ UNCHANGED nonSidebarVars

\* 'Clear Data' is clicked
ClickClear ==
    /\ session.data_loaded
    /\ session.city_info # 0
    /\ session' = clear_session_state(session)
    /\ UNCHANGED <<cities, grocery_stores, fetch_metadata, clock, nonSidebarVars>>

NextSidebar ==
    \/ \E id \in CityIds, ok \in BOOLEAN, a \in FetchAnswers : ClickFetch(id, ok, a)
    \/ \E ok_city \in BOOLEAN, ok_stores \in BOOLEAN :
          ClickUseExisting(ok_city, ok_stores)
    \/ \E a \in FetchAnswers : ClickReFetch(a)
    \/ ClickClear

SpecSidebar == Init /\ [][NextSidebar]_vars

(***************************************************************************)
(* The claims.                                                             *)
(***************************************************************************)

Range(seq) == { seq[i] : i \in DOMAIN seq }

\* the rows of the running fetch_new_data call's city
CityStores(table, city_id) == { s \in table : s.city_id = city_id }

\* every row of the batch is prepared and accepted by the database
AllRowsOk(batch) == \A i \in DOMAIN batch : batch[i].fault = "ok"

\* C1 (as claimed): a caller of fetch_and_save_stores running alone that
\* persists the same store (same name, location and city, identical
\* category) a second time leaves exactly one row for that key, carrying
\* the store's name, category and location.
C1_IdempotentUpsert ==
    \A p \in Procs :
      (/\ fetcher[p].pc = "done"
       /\ \A q \in Procs \ {p} : fetcher[q].pc = "idle")
      => \A i, j \in DOMAIN fetcher[p].stores :
            LET r == fetcher[p].stores[i]
                rows == MatchingStores(scripts_stores, r.store_name, r.location,
                                       ScriptsCity)
            IN (i < j /\ fetcher[p].stores[j] = r
                /\ \A k \in DOMAIN fetcher[p].stores :
                      LET o == fetcher[p].stores[k] IN
                      (o.store_name = r.store_name /\ o.location = r.location)
                          => o = r)
               => /\ Cardinality(rows) = 1
                  /\ \A s \in rows : s.shop_type = r.shop_type

\* C2 (as claimed): after save_stores_to_db, a row of the batch whose
\* (osm_id, city_id) was already stored has still exactly one row, and the
\* stored name and category are the ones of the batch.
C2_UpsertUpdatesInPlace ==
    (pc = "saved" /\ ~call.batch_failure /\ AllRowsOk(call.stores))
    => \A i \in DOMAIN call.stores :
          LET r == call.stores[i]
              rows == { s \in grocery_stores :
                          s.city_id = call.city_id /\ s.osm_id = r.osm_id }
          IN Conflicts(pre.rows, call.city_id, r.osm_id)
             => /\ Cardinality(rows) = 1
                /\ \A s \in rows : s.name = r.name /\ s.shop_type = r.shop_type

\* no key (name, location) occurs twice in the batch
NoRepeatedKey(batch) ==
    \A i, j \in DOMAIN batch :
       (batch[i].store_name = batch[j].store_name
        /\ batch[i].location = batch[j].location) => i = j

\* C3 (as claimed): when two ingestion calls that persist a store with the
\* same dedup key have both returned, whatever their interleaving, the
\* repository holds exactly one row for that key.
C3_NoDuplicateUnderConcurrency ==
    (/\ \A p \in Procs : fetcher[p].pc = "done"
     /\ \A p \in Procs : NoRepeatedKey(fetcher[p].stores))
    => \A r1 \in Range(fetcher[1].stores), r2 \in Range(fetcher[2].stores) :
          (r1.store_name = r2.store_name /\ r1.location = r2.location)
          => Cardinality(MatchingStores(scripts_stores, r1.store_name,
                                        r1.location, ScriptsCity)) = 1

EndedSkipped(g) ==
    /\ g.pc = "skipped"
    /\ ~g.fetched
    /\ g.writes = 0
    /\ ~g.recorded
    /\ g.new_records = 0

C7_RecordFailureSkipped ==
    (pc = "saved" /\ ~call.batch_failure)
    => \A i \in DOMAIN call.stores :
          call.stores[i].fault = "ok"
          => Conflicts(grocery_stores, call.city_id, call.stores[i].osm_id)

\* C8 (as claimed): a call whose save_stores_to_db failed at batch level
\* writes no fetch-metadata record.
C8_BatchFailureAborts ==
    (pc = "returned" /\ call.batch_failure)
    => Len(fetch_metadata) = pre.meta

\* C9 (as claimed): the stores_count of the record a successful ingestion
\* writes is the number of stores of that city in the repository at the
\* end of the call, for a first fetch and for a re-fetch (here: every row
\* of the batch is valid and the upstream still returns every stored store
\* of the city).
C9_CountIsFinalStoreCount ==
    (/\ pc = "returned" /\ call.logged /\ call.repo_ok
     /\ AllRowsOk(call.stores)
     /\ \A s \in CityStores(grocery_stores, call.city_id) :
           \E i \in DOMAIN call.stores : call.stores[i].osm_id = s.osm_id)
    => fetch_metadata[Len(fetch_metadata)].stores_count =
          Cardinality(CityStores(grocery_stores, call.city_id))

\* C10: coverage_areas is an append-only log: a step leaves the recorded
\* rows as they are and adds at most one row at the end, and a successful
\* add_coverage(bbox, store_count) adds exactly the row of bbox and
\* store_count, also when bbox is already recorded.
C10_CoverageAppendOnly ==
    [][/\ Len(coverage_areas') \in {Len(coverage_areas), Len(coverage_areas) + 1}
       /\ \A i \in DOMAIN coverage_areas : coverage_areas'[i] = coverage_areas[i]
       /\ \A b \in BBoxes, n \in StoreCounts :
             AddCoverage(b, n, TRUE)
             => /\ Len(coverage_areas') = Len(coverage_areas) + 1
                /\ RingBBox(coverage_areas'[Len(coverage_areas')].bbox) = b
                /\ coverage_areas'[Len(coverage_areas')].store_count = n]_vars

\* C10 witness: the same bounding box is recorded twice.
C10_Witness ==
    /\ Len(coverage_areas) = 2
    /\ coverage_areas[1].bbox = coverage_areas[2].bbox

\* the rows of the session's store set within radius of the analysis point,
\* by the distance find_nearest_store uses
WithinRadius(radius) ==
    { i \in DOMAIN analysis.stores_gdf.rows :
        calculate_distance(analysis.analysis_point,
                           <<analysis.stores_gdf.rows[i].y,
                             analysis.stores_gdf.rows[i].x>>) <= radius }

\* C11: the classification shown is Desert for count 0, Limited for count 1
\* or 2 and Good for count 3 or more.
C11_ClassificationBoundaries ==
    analysis.report.rendered
    => LET count == analysis.report.count
           shown == analysis.report.classification
       IN /\ shown \in {"Desert", "Limited", "Good"}
          /\ (shown = "Desert") <=> (count = 0)
          /\ (shown = "Limited") <=> (count \in {1, 2})
          /\ (shown = "Good") <=> (count >= 3)

\* C11 witness: three stores within the radius, at the boundary of Good.
C11_Witness ==
    /\ analysis.report.rendered
    /\ analysis.report.count = 3
    /\ Cardinality(WithinRadius(analysis.analysis_radius)) = 3
    /\ analysis.report.classification = "Good"

C15_RadiusQueryExact ==
    analysis.report.rendered
    => LET nearby == analysis.report.nearby
           rows == analysis.stores_gdf.rows
       IN /\ { nearby[k].idx : k \in DOMAIN nearby }
               = { rows[i].idx : i \in WithinRadius(analysis.analysis_radius) }
          /\ Len(nearby) = Cardinality(WithinRadius(analysis.analysis_radius))
          /\ \A k \in DOMAIN nearby :
                k > 1 => nearby[k - 1].distance <= nearby[k].distance

StrictlyInside(location, bbox) ==
    /\ bbox[1] < location[1] /\ location[1] < bbox[3]
    /\ bbox[2] < location[2] /\ location[2] < bbox[4]

C17_CategoryByPriority ==
    \A k \in DOMAIN processed.out :
       LET row == processed.out[k]
           src == processed.raw[row.idx + 1]
       IN /\ row.shop_type \notin {"", "NaN"}
          /\ row.shop_type =
                IF src.shop # "" THEN Lower(src.shop)
                ELSE IF src.amenity # "" THEN Lower(src.amenity)
                ELSE "unknown"

\* C18 (as claimed): every store an ingestion by boundary polygon returns or
\* persists has its point within the boundary.
C18_StoresWithinBoundary ==
    \A k \in DOMAIN processed.out :
       LET point == processed.out[k].geometry
       IN /\ CityBoundary[1] < point[1] /\ point[1] < CityBoundary[3]
          /\ CityBoundary[2] < point[2] /\ point[2] < CityBoundary[4]

\* C20 (as claimed): after a re-fetch has saved its batch, every store of
\* the batch that was already stored carries the time of the re-fetch as
\* its timestamp, also when its attributes are unchanged.
C20_TimestampRefreshed ==
    (pc = "saved" /\ ~call.batch_failure /\ AllRowsOk(call.stores))
    => \A i \in DOMAIN call.stores :
          Conflicts(pre.rows, call.city_id, call.stores[i].osm_id)
          => \A s \in grocery_stores :
                (s.city_id = call.city_id /\ s.osm_id = call.stores[i].osm_id)
                => s.fetched_at = clock

\* C21 (as claimed): a save of a boundary whose key is stored replaces the
\* geometry and refreshes the timestamp of its row and adds no row, so that
\* after any sequence of saves no key has two rows, keys without a country
\* included; and no step removes a boundary row.
C21_BoundaryLifecycle ==
    [][/\ \A r \in city_boundaries.rows :
             \E r2 \in city_boundaries'.rows : r2.id = r.id
       /\ \A r \in cities_table : \E r2 \in cities_table' : r2.id = r.id
       /\ \A r1, r2 \in city_boundaries'.rows :
             (r1.city_name = r2.city_name /\ r1.country_name = r2.country_name)
             => r1 = r2
       /\ \A r1, r2 \in cities_table' :
             (r1.name = r2.name /\ r1.state = r2.state /\ r1.country = r2.country)
             => r1 = r2
       /\ \A c \in CityNames, k \in CountryNames, g \in Geometries :
             (/\ SaveBoundaryToDb(c, k, g, TRUE)
              /\ \E r \in city_boundaries.rows :
                    r.city_name = c /\ r.country_name = k)
             => /\ Cardinality(city_boundaries'.rows) =
                      Cardinality(city_boundaries.rows)
                /\ \A r \in city_boundaries'.rows :
                      (r.city_name = c /\ r.country_name = k)
                      => (r.boundary = g /\ r.last_updated = clock')
       /\ \A gdf \in CityFrames :
             (/\ SaveCityToDb(gdf, TRUE)
              /\ \E r \in cities_table :
                    /\ r.name = gdf.name /\ r.state = gdf.state
                    /\ r.country = gdf.country)
             => /\ Cardinality(cities_table') = Cardinality(cities_table)
                /\ \A r \in cities_table' :
                      (/\ r.name = gdf.name /\ r.state = gdf.state
                       /\ r.country = gdf.country)
                      => (r.boundary = gdf.boundary /\ r.fetched_at = clock')]_vars

C23_MalformedInputRejected ==
    (/\ query.op = "get_stores_in_radius"
     /\ \/ query.lat < -90 \/ query.lat > 90
        \/ query.lon < -180 \/ query.lon > 180
        \/ query.radius_meters <= 0)
    => /\ query.returned.raised = "ValueError"
       /\ query.returned.queries = 0
       /\ query.returned.table = query.table

\* C23 witness: a radius of 0 around a point in range is rejected on a
\* repository that holds stores.
C23_Witness ==
    /\ query.op = "get_stores_in_radius"
    /\ query.lat = 0 /\ query.lon = 180
    /\ query.radius_meters = 0
    /\ query.ok
    /\ Cardinality(query.table) = 2
    /\ query.returned.raised = "ValueError"
    /\ query.returned.queries = 0

\* C24: calculate_distance gives the same distance in both directions and 0
\* for a point and itself.
C24_DistanceSymmetric ==
    query.op = "calculate_distance"
    => /\ query.result = calculate_distance(query.point2, query.point1)
       /\ (query.point1 = query.point2) => query.result = 0

\* C24 witness: two points of different latitude and longitude, 1.12 km
\* apart.
C24_Witness ==
    /\ query.op = "calculate_distance"
    /\ query.point1 = <<1, 0>>
    /\ query.point2 = <<0, 1>>
    /\ query.result = 112

C26_LoadEmptyStoreSet ==
    [][\A id \in CityIds :
          (/\ ClickUseExisting(TRUE, TRUE)
           /\ session.existing_city_id = id
           /\ cities[id] # 0
           /\ \A r \in grocery_stores : r.city_id # id)
          => /\ session'.data_loaded
             /\ session'.boundary_gdf = id
             /\ session'.stores_gdf = [is_none |-> FALSE, city |-> id,
                                       osm_ids |-> {}]]_vars

\* C27 (as claimed): whenever the analysis has looked up the nearest store
\* of a point, the lookup stores_gdf.iloc[store_idx] with the identifier
\* find_nearest_store returned raises nothing and selects a store whose
\* distance to the point is the minimum distance returned, for store sets
\* loaded from the repository and for store sets as process_stores leaves
\* them.
C27_NearestIsMinimumStore ==
    (/\ analysis.report.rendered \/ analysis.report.raised
     /\ analysis.report.nearest # <<>>)
    => /\ ~analysis.report.raised
       /\ calculate_distance(analysis.analysis_point,
                             <<analysis.report.store.y,
                               analysis.report.store.x>>)
            = analysis.report.nearest[2]

\* C28 (as claimed): when save_stores_to_db has returned, the number it
\* returned is the number of store rows that are in the repository now and
\* were not there when the call began, for every batch, also one with a
\* record whose INSERT fails.
C28_ReturnedCountIsRowsAdded ==
    pc = "saved"
    => call.stores_count = Cardinality(grocery_stores \ pre.rows)

\* C29 (as claimed): when the analysis of a point is rendered and shows a
\* count of stores within the radius above 0, the detailed list of nearby
\* stores has exactly that many entries.
C29_NearbyListMatchesCount ==
    (analysis.report.rendered /\ analysis.report.count > 0)
    => Len(analysis.report.nearby) = analysis.report.count

\* the session holds the boundary and the stores of the city that
\* current_city and current_state name
NamesLoadedCity(s) ==
    /\ s.boundary_gdf \in CityIds
    /\ CityKey(s.boundary_gdf) = <<s.current_city, s.current_state>>
    /\ ~s.stores_gdf.is_none
    /\ s.stores_gdf.city = s.boundary_gdf
    /\ s.city_info = s.boundary_gdf

\* the fields a failed fetch is to leave alone
LoadedFields(s) ==
    <<s.boundary_gdf, s.stores_gdf, s.city_info, s.data_loaded, s.current_city,
      s.current_state>>

\* C30 (as claimed): after every click of the sidebar, a session with
\* data_loaded = true names in current_city and current_state the city whose
\* boundary and stores it holds; and a click whose fetch fails (no boundary
\* or no store set from the upstream) leaves boundary, stores, city_info,
\* data_loaded, current_city and current_state as they were.
C30_SessionNamesLoadedCity ==
    [][/\ session'.data_loaded => NamesLoadedCity(session')
       /\ \A id \in CityIds, ok \in BOOLEAN, a \in FetchAnswers :
             (/\ ~a.boundary_ok \/ ~a.stores_ok
              /\ \/ /\ check_city_exists(cities, CityKey(id)[1], CityKey(id)[2],
                                          ok) = 0
                    /\ ClickFetch(id, ok, a)
                 \/ ClickReFetch(a))
             => LoadedFields(session') = LoadedFields(session)]_vars

====
